---- MODULE Spec2Model ----
(***************************************************************************)
(* Dependency-aware step execution of WorkflowEngine.cs as left by the     *)
(* three patch scripts fix_workflow.py, fix_blocking_logic.py and          *)
(* fix_status.py.  The blocked-step branch and the final status rule are   *)
(* the replacement texts the scripts write; the surrounding loop, the      *)
(* dependency checker and the step executor call are not part of the       *)
(* scripts and follow the written description of the engine.               *)
(***************************************************************************)
EXTENDS Integers, Sequences, FiniteSets, TLC

\* ---- bounds ----
MaxSteps == 3
MaxDeps == 2
MaxEdges == 3
MaxChunks == 3
MaxRuns == 3

\* ---- values ----
Completed == "Completed"
Failed == "Failed"
NoStatus == "None"
WorkflowStatus == {Completed, Failed}

\* Step IDs a workflow may declare, and one more ID that no workflow declares.
StepIds == 1..MaxSteps
DepIds == 1..(MaxSteps + 1)
DepSets == {D \in SUBSET DepIds : Cardinality(D) <= MaxDeps}

\* The phrases the engine looks for in a blocking reason, and the two
\* reason templates of the dependency checker.  A reason text is modelled
\* by the set of phrases that occur in it.
PhraseMissingLower == "otsutstvuyut zavisimosti"
PhraseMissingUpper == "Otsutstvuyushchie zavisimosti"
PhraseFailed == "neudachnye zavisimosti"
MissingTemplate == {PhraseMissingLower}
FailedTemplate == {PhraseFailed}
NullReason == {"<null>"}
EmptyText == {}

NoResult == [StepId |-> 0, Status |-> NoStatus, Error |-> EmptyText, FailedDependencies |-> {}]

VARIABLES
    workflow,          \* the steps in declared order: <<[Id, DependsOn], ...>>
    idx,               \* position of the next step of the loop
    stepResults,       \* insertion-ordered result sequence
    stepResultLookup,  \* step ID -> result (NoResult when not indexed)
    blockedSteps,
    failedSteps,
    executorCalls,     \* calls of the step executor in order: [StepId, Outcome]
    processed,         \* step IDs the loop has gone through, in order
    finalStatus,       \* NoStatus until the run ends
    content,           \* the text of WorkflowEngine.cs the patch scripts work on
    applied            \* the patch scripts run so far, in order

engineVars == <<workflow, idx, stepResults, stepResultLookup, blockedSteps,
                failedSteps, executorCalls, processed, finalStatus>>

patchVars == <<content, applied>>

vars == <<engineVars, patchVars>>

\* ---- workflow ----
RECURSIVE EdgeCount(_, _)
EdgeCount(w, n) ==
    IF n = 0 THEN 0 ELSE Cardinality(w[n].DependsOn) + EdgeCount(w, n - 1)

\* Workflows of up to MaxSteps steps, each with up to MaxDeps dependency
\* IDs, and up to MaxEdges dependency declarations in all.
Workflows ==
    UNION {{w \in [1..n -> [Id : {0}, DependsOn : DepSets]] : EdgeCount(w, n) <= MaxEdges}
              : n \in 0..MaxSteps}

WorkflowOf(w) == [i \in DOMAIN w |-> [Id |-> i, DependsOn |-> w[i].DependsOn]]

WorkflowStepIds == {workflow[i].Id : i \in DOMAIN workflow}

DependsOn(s) == IF s \in WorkflowStepIds THEN workflow[s].DependsOn ELSE {}

\* ---- dependency checker ----
Contains(text, phrase) == phrase \in text

IsMissing(d, lookup, blocked, failed) ==
    /\ lookup[d] = NoResult
    /\ d \notin blocked
    /\ d \notin failed
    /\ d \notin WorkflowStepIds

IsSatisfied(d, lookup) == lookup[d].Status = Completed

Check(step, lookup, blocked, failed) ==
    LET missing == {d \in step.DependsOn : IsMissing(d, lookup, blocked, failed)}
        notDone == {d \in step.DependsOn : d \notin missing /\ ~IsSatisfied(d, lookup)}
    IN  [CanExecute |-> missing = {} /\ notDone = {},
         BlockingReason |-> IF missing # {} THEN MissingTemplate
                            ELSE IF notDone # {} THEN FailedTemplate
                            ELSE NullReason,
         FailedDependencies |-> missing \cup notDone]

dependencyCheckResult ==
    Check(workflow[idx], stepResultLookup, blockedSteps, failedSteps)

\* ---- results ----
\* Variant: the blocked result does not carry the implicated dependencies.
CreateBlockedStepResult_NoDependencies(stepId, reason, failedDependencies) ==
    [StepId |-> stepId, Status |-> Failed, Error |-> reason,
     FailedDependencies |-> {}]

CreateBlockedStepResult(stepId, reason, failedDependencies) ==
    [StepId |-> stepId, Status |-> Failed, Error |-> reason,
     FailedDependencies |-> failedDependencies]

ExecutedResult(stepId, outcome) ==
    [StepId |-> stepId, Status |-> outcome, Error |-> EmptyText,
     FailedDependencies |-> {}]

\* ---- the blocked-step branch ----
\* Variant: any reason text at all is taken for a missing-dependency reason.
ReasonSaysMissing_AnyReason(reason) == reason # EmptyText

ReasonSaysMissing(reason) ==
    Contains(reason, PhraseMissingLower) \/ Contains(reason, PhraseMissingUpper)

\* Variant: the blocked step is tracked but no result is created for it.
ReportBlockedStep_NoResult(st, stepId, check) ==
    [st EXCEPT !.blockedSteps = @ \cup {stepId},
               !.failedSteps = @ \cup {stepId}]

\* The step is blocked by missing dependencies: a Failed result is created.
ReportBlockedStep(st, stepId, check) ==
    LET blockedResult == CreateBlockedStepResult(stepId, check.BlockingReason,
                                                 check.FailedDependencies)
    IN  [stepResults |-> Append(st.stepResults, blockedResult),
         stepResultLookup |-> [st.stepResultLookup EXCEPT ![stepId] = blockedResult],
         blockedSteps |-> st.blockedSteps \cup {stepId},
         failedSteps |-> st.failedSteps \cup {stepId}]

\* Variant: every blocked step gets a Failed result, as before the patches.
SkipBlockedStep_AddsResult(st, stepId) ==
    LET blockedResult == CreateBlockedStepResult(stepId, FailedTemplate, {})
    IN  [stepResults |-> Append(st.stepResults, blockedResult),
         stepResultLookup |-> [st.stepResultLookup EXCEPT ![stepId] = blockedResult],
         blockedSteps |-> st.blockedSteps \cup {stepId},
         failedSteps |-> st.failedSteps \cup {stepId}]

\* Variant: the skipped step is not recorded in the blocked-set.
SkipBlockedStep_NoBlockedSet(st, stepId) ==
    [st EXCEPT !.failedSteps = @ \cup {stepId}]

\* The step is blocked by unsuccessful dependencies: no result is added.
SkipBlockedStep(st, stepId) ==
    [st EXCEPT !.blockedSteps = @ \cup {stepId},
               !.failedSteps = @ \cup {stepId}]

\* Variant: the branch for unsuccessful dependencies lacks its "continue".
new_blocking_logic_SkipFallsThrough(st, stepId, check) ==
    IF ~check.CanExecute
    THEN LET blockingReason == IF check.BlockingReason = NullReason
                               THEN EmptyText ELSE check.BlockingReason
         IN  [state |-> IF ReasonSaysMissing(blockingReason)
                        THEN ReportBlockedStep(st, stepId, check)
                        ELSE SkipBlockedStep(st, stepId),
              continue |-> ReasonSaysMissing(blockingReason)]
    ELSE [state |-> st, continue |-> FALSE]

\* Variant: the branch for missing dependencies lacks its "continue".
new_blocking_logic_ReportFallsThrough(st, stepId, check) ==
    IF ~check.CanExecute
    THEN LET blockingReason == IF check.BlockingReason = NullReason
                               THEN EmptyText ELSE check.BlockingReason
         IN  [state |-> IF ReasonSaysMissing(blockingReason)
                        THEN ReportBlockedStep(st, stepId, check)
                        ELSE SkipBlockedStep(st, stepId),
              continue |-> ~ReasonSaysMissing(blockingReason)]
    ELSE [state |-> st, continue |-> FALSE]

\* The whole "if (!dependencyCheckResult.CanExecute) { ... continue; }" block:
\* the tracking state it leaves and whether the rest of the loop body is skipped.
new_blocking_logic(st, stepId, check) ==
    IF ~check.CanExecute
    THEN LET blockingReason == IF check.BlockingReason = NullReason
                               THEN EmptyText ELSE check.BlockingReason
         IN  [state |-> IF ReasonSaysMissing(blockingReason)
                        THEN ReportBlockedStep(st, stepId, check)
                        ELSE SkipBlockedStep(st, stepId),
              continue |-> TRUE]
    ELSE [state |-> st, continue |-> FALSE]

\* ---- the loop ----
InLoop == finalStatus = NoStatus /\ idx \in DOMAIN workflow

RunState ==
    [stepResults |-> stepResults, stepResultLookup |-> stepResultLookup,
     blockedSteps |-> blockedSteps, failedSteps |-> failedSteps]

AfterBlocking == new_blocking_logic(RunState, workflow[idx].Id, dependencyCheckResult)

Init ==
    /\ workflow \in {WorkflowOf(w) : w \in Workflows}
    /\ idx = 1
    /\ stepResults = <<>>
    /\ stepResultLookup = [d \in DepIds |-> NoResult]
    /\ blockedSteps = {}
    /\ failedSteps = {}
    /\ executorCalls = <<>>
    /\ processed = <<>>
    /\ finalStatus = NoStatus
    /\ content = <<>>
    /\ applied = <<>>

\* The loop body when the blocked-step branch ends it with "continue".
BlockStep ==
    /\ InLoop
    /\ AfterBlocking.continue
    /\ stepResults' = AfterBlocking.state.stepResults
    /\ stepResultLookup' = AfterBlocking.state.stepResultLookup
    /\ blockedSteps' = AfterBlocking.state.blockedSteps
    /\ failedSteps' = AfterBlocking.state.failedSteps
    /\ processed' = Append(processed, workflow[idx].Id)
    /\ idx' = idx + 1
    /\ UNCHANGED <<workflow, executorCalls, finalStatus, patchVars>>

BlockedAndReported == BlockStep /\ stepResults' # stepResults

BlockedAndUnreported == BlockStep /\ stepResults' = stepResults

\* The loop body when it goes on to the step executor.
ExecuteStep ==
    /\ InLoop
    /\ ~AfterBlocking.continue
    /\ LET stepId == workflow[idx].Id
           st == AfterBlocking.state
       IN  \E outcome \in WorkflowStatus :
             LET result == ExecutedResult(stepId, outcome) IN
             /\ executorCalls' = Append(executorCalls,
                                         [StepId |-> stepId, Outcome |-> outcome])
             /\ stepResults' = Append(st.stepResults, result)
             /\ stepResultLookup' = [st.stepResultLookup EXCEPT ![stepId] = result]
             /\ blockedSteps' = st.blockedSteps
             /\ failedSteps' = IF outcome = Failed THEN st.failedSteps \cup {stepId}
                               ELSE st.failedSteps
             /\ processed' = Append(processed, stepId)
             /\ idx' = idx + 1
    /\ UNCHANGED <<workflow, finalStatus, patchVars>>

\* ---- terminal status ----
hasFailedSteps(results) == \E i \in DOMAIN results : results[i].Status = Failed

hasBlockedSteps(results, stepCount) == Len(results) < stepCount

\* The rule of the engine before the patches.
OriginalStatusRule(results, stepCount) ==
    IF /\ Len(results) = stepCount
       /\ \A i \in DOMAIN results : results[i].Status = Completed
    THEN Completed ELSE Failed

\* Variant: the rule without the blocked-step test.
StatusRule_NoBlockedTest(results, stepCount) ==
    IF /\ ~hasFailedSteps(results)
       /\ \A i \in DOMAIN results : results[i].Status = Completed
    THEN Completed ELSE Failed

\* Variant: the rule looks at the number of results only.
StatusRule_CountOnly(results, stepCount) ==
    IF ~hasBlockedSteps(results, stepCount) THEN Completed ELSE Failed

StatusRule(results, stepCount) ==
    IF /\ ~hasFailedSteps(results)
       /\ ~hasBlockedSteps(results, stepCount)
       /\ \A i \in DOMAIN results : results[i].Status = Completed
    THEN Completed ELSE Failed

new_status_logic ==
    /\ finalStatus = NoStatus
    /\ idx = Len(workflow) + 1
    /\ finalStatus' = StatusRule(stepResults, Len(workflow))
    /\ UNCHANGED <<workflow, idx, stepResults, stepResultLookup, blockedSteps,
                   failedSteps, executorCalls, processed, patchVars>>

Next ==
    \/ ExecuteStep
    \/ BlockedAndReported
    \/ BlockedAndUnreported
    \/ new_status_logic

Spec == Init /\ [][Next]_vars

FairSpec == Spec /\ WF_vars(Next)

Done == finalStatus # NoStatus

TypeOK ==
    /\ idx \in 1..(Len(workflow) + 1)
    /\ finalStatus \in WorkflowStatus \cup {NoStatus}
    /\ blockedSteps \subseteq StepIds
    /\ failedSteps \subseteq StepIds

\* ---- vocabulary of the properties ----
ResultsOf(s) == {i \in DOMAIN stepResults : stepResults[i].StepId = s}

HasResult(s, status) == \E i \in ResultsOf(s) : stepResults[i].Status = status

Executed(s) == \E i \in DOMAIN executorCalls : executorCalls[i].StepId = s

Processed(s) == \E i \in DOMAIN processed : processed[i] = s

MissingDeps(s) == DependsOn(s) \ WorkflowStepIds

\* The result of s is the one created for a step blocked by missing dependencies.
SynthesizedAt(i) ==
    /\ stepResults[i].Status = Failed
    /\ ReasonSaysMissing(stepResults[i].Error)

\* d was passed to the executor and the executor reported failure.
ExecutedAndFailed(d) == Executed(d) /\ HasResult(d, Failed)

\* C1: at the end of a run the terminal status is Completed exactly when
\* every declared step has a Completed result in the result sequence, and
\* it is Failed in every other case.
C1_CompletedIffEveryStepCompleted ==
    Done =>
        /\ finalStatus \in WorkflowStatus
        /\ finalStatus = Completed
              <=> \A s \in WorkflowStepIds : HasResult(s, Completed)
        /\ finalStatus = Failed
              <=> \E s \in WorkflowStepIds : ~HasResult(s, Completed)

\* A run ends Failed although no result in the sequence is Failed: some
\* step is absent from the sequence.
C1_Witness ==
    /\ Done
    /\ finalStatus = Failed
    /\ stepResults # <<>>
    /\ ~hasFailedSteps(stepResults)

\* C2: a step is handed to the step executor only in a step of the loop in
\* which every one of its declared dependencies is a step of the workflow
\* that already has a Completed result in the lookup and is in neither the
\* blocked-set nor the failed-set.
C2_ExecutedOnlyWithCompletedDependencies ==
    [][Len(executorCalls') > Len(executorCalls) =>
         \A k \in (Len(executorCalls) + 1)..Len(executorCalls') :
            \A d \in DependsOn(executorCalls'[k].StepId) :
               /\ d \in WorkflowStepIds
               /\ stepResultLookup[d].Status = Completed
               /\ d \notin blockedSteps
               /\ d \notin failedSteps]_vars

\* A step with two dependencies has been executed.
C2_Witness ==
    \E s \in WorkflowStepIds : Executed(s) /\ Cardinality(DependsOn(s)) >= 2

\* C3: a step that declares a dependency ID that is no step of the workflow
\* is never executed; once processed it has exactly one result, Failed and
\* carrying the missing-dependency reason, which is also its lookup entry,
\* and it is in the blocked-set and the failed-set; the run ends Failed.
C3_MissingDependencyIsReported ==
    \A s \in WorkflowStepIds :
        MissingDeps(s) # {} =>
            /\ ~Executed(s)
            /\ ~Processed(s) => ResultsOf(s) = {}
            /\ Processed(s) =>
                  /\ Cardinality(ResultsOf(s)) = 1
                  /\ \A i \in ResultsOf(s) :
                        /\ SynthesizedAt(i)
                        /\ stepResultLookup[s] = stepResults[i]
                  /\ s \in blockedSteps
                  /\ s \in failedSteps
            /\ Done => finalStatus = Failed

\* A finished run in which a step with a missing dependency came after a
\* step that completed.
C3_Witness ==
    /\ Done
    /\ \E s \in WorkflowStepIds :
          /\ MissingDeps(s) # {}
          /\ \E t \in WorkflowStepIds : t < s /\ HasResult(t, Completed)

\* C4: a step whose only dependency is an earlier step that was executed
\* and failed never gets a result and is never executed; once processed it
\* is in the blocked-set and the failed-set; the run ends Failed.
C4_FailedDependencyIsUnreported ==
    \A s \in WorkflowStepIds :
        \A d \in WorkflowStepIds :
            (DependsOn(s) = {d} /\ d < s /\ ExecutedAndFailed(d)) =>
                /\ ResultsOf(s) = {}
                /\ stepResultLookup[s] = NoResult
                /\ ~Executed(s)
                /\ Processed(s) => s \in blockedSteps /\ s \in failedSteps
                /\ Done => finalStatus = Failed

\* The scenario [A (fails), B (dep: A)] at its end.
C4_Witness ==
    /\ Done
    /\ \E s \in WorkflowStepIds :
          \E d \in WorkflowStepIds :
              DependsOn(s) = {d} /\ d < s /\ ExecutedAndFailed(d) /\ Processed(s)

\* ---- dependency chains ----
DirectDeps(s) == DependsOn(s) \cap WorkflowStepIds

RECURSIVE AncestorsWithin(_, _)
AncestorsWithin(s, n) ==
    IF n = 0 THEN {}
    ELSE DirectDeps(s) \cup UNION {AncestorsWithin(d, n - 1) : d \in DirectDeps(s)}

\* Every step s depends on, directly or through a chain of existing steps.
Ancestors(s) == AncestorsWithin(s, Len(workflow))

\* Every dependency that is a step of the workflow is declared earlier.
InDependencyOrder == \A s \in WorkflowStepIds : \A d \in DirectDeps(s) : d < s

\* C5 as first stated: in a workflow declared in dependency order, every
\* step below an executed-and-failed step is never executed and has no
\* entry in the result sequence, and the run ends Failed.
C5_EveryDescendantUnreported ==
    InDependencyOrder =>
        \A a \in WorkflowStepIds : \A s \in WorkflowStepIds :
            (ExecutedAndFailed(a) /\ a \in Ancestors(s)) =>
                /\ ~Executed(s)
                /\ ResultsOf(s) = {}
                /\ Done => finalStatus = Failed

\* C5: in a workflow declared in dependency order, a step below an
\* executed-and-failed step is never executed and the run ends Failed; when
\* the step declares no dependency ID missing from the workflow it has no
\* entry in the result sequence and, once processed, is in the blocked-set
\* and the failed-set; when it also declares a missing dependency its only
\* entry is the synthesized Failed result.
C5_CascadeBlocksDescendants ==
    InDependencyOrder =>
        \A a \in WorkflowStepIds : \A s \in WorkflowStepIds :
            (ExecutedAndFailed(a) /\ a \in Ancestors(s)) =>
                /\ ~Executed(s)
                /\ MissingDeps(s) = {} =>
                      /\ ResultsOf(s) = {}
                      /\ stepResultLookup[s] = NoResult
                /\ MissingDeps(s) # {} => \A i \in ResultsOf(s) : SynthesizedAt(i)
                /\ Processed(s) => s \in blockedSteps /\ s \in failedSteps
                /\ Done => finalStatus = Failed

\* The chain A <- B <- C at its end, A failed: C is below A only through B.
C5_Witness ==
    /\ Done
    /\ InDependencyOrder
    /\ \E a \in WorkflowStepIds : \E b \in WorkflowStepIds : \E s \in WorkflowStepIds :
          /\ ExecutedAndFailed(a)
          /\ DependsOn(b) = {a}
          /\ DependsOn(s) = {b}
          /\ ResultsOf(b) = {}
          /\ ResultsOf(s) = {}

\* ---- workflows without dependencies ----
NoDependencies == \A s \in WorkflowStepIds : DependsOn(s) = {}

\* C6: when no step declares a dependency, the finished run has exactly one
\* result per step, every step was passed to the executor once, and the
\* status is Completed exactly when every executor call returned success,
\* Failed otherwise.
C6_NoDependenciesStatus ==
    (NoDependencies /\ Done) =>
        /\ Len(stepResults) = Len(workflow)
        /\ Len(executorCalls) = Len(workflow)
        /\ \A s \in WorkflowStepIds :
              /\ Cardinality(ResultsOf(s)) = 1
              /\ Cardinality({i \in DOMAIN executorCalls : executorCalls[i].StepId = s}) = 1
        /\ finalStatus \in WorkflowStatus
        /\ finalStatus = Completed
              <=> \A i \in DOMAIN executorCalls : executorCalls[i].Outcome = Completed

\* A finished run without dependencies where one call succeeded and another failed.
C6_Witness ==
    /\ NoDependencies
    /\ Done
    /\ finalStatus = Failed
    /\ \E i \in DOMAIN executorCalls : executorCalls[i].Outcome = Completed
    /\ \E i \in DOMAIN executorCalls : executorCalls[i].Outcome = Failed

\* ---- outcomes of a step ----
\* s was handed to the executor and its one result is the executor's.
IsExecutedOutcome(s) ==
    /\ Executed(s)
    /\ s \notin blockedSteps
    /\ Cardinality(ResultsOf(s)) = 1
    /\ \A i \in ResultsOf(s) :
          /\ ~SynthesizedAt(i)
          /\ \E k \in DOMAIN executorCalls :
                /\ executorCalls[k].StepId = s
                /\ executorCalls[k].Outcome = stepResults[i].Status

IsBlockedAndReported(s) ==
    /\ ~Executed(s)
    /\ s \in blockedSteps
    /\ Cardinality(ResultsOf(s)) = 1
    /\ \A i \in ResultsOf(s) : SynthesizedAt(i)

IsBlockedAndUnreported(s) ==
    /\ ~Executed(s)
    /\ s \in blockedSteps
    /\ ResultsOf(s) = {}

\* Steps the loop went through without executing them and without a result.
UnreportedSteps ==
    {s \in WorkflowStepIds : Processed(s) /\ ~Executed(s) /\ ResultsOf(s) = {}}

ReportedSteps ==
    {s \in WorkflowStepIds : Processed(s) /\ ~Executed(s) /\ ResultsOf(s) # {}}

ExecutedSteps == {s \in WorkflowStepIds : Executed(s)}

\* C7: the result sequence is never longer than the workflow and holds one
\* entry per executed step and per blocked-and-reported step; at the end
\* the lengths are equal exactly when no step is blocked-and-unreported,
\* and hasBlockedSteps is true exactly when some step is.
C7_CountInvariant ==
    /\ Len(stepResults) <= Len(workflow)
    /\ Len(stepResults) = Cardinality(ExecutedSteps) + Cardinality(ReportedSteps)
    /\ Done =>
          /\ Len(stepResults) = Len(workflow) <=> UnreportedSteps = {}
          /\ hasBlockedSteps(stepResults, Len(workflow)) <=> UnreportedSteps # {}

\* A finished run with a blocked-and-reported step and no unreported one:
\* the counts are equal although a step was blocked.
C7_Witness ==
    /\ Done
    /\ ReportedSteps # {}
    /\ ExecutedSteps # {}
    /\ UnreportedSteps = {}
    /\ Len(stepResults) = Len(workflow)

\* C8: every step ID occurs at most once in the result sequence, and every
\* entry belongs to a step of the workflow.
C8_AtMostOneResultPerStep ==
    /\ \A s \in DepIds : Cardinality(ResultsOf(s)) <= 1
    /\ \A i \in DOMAIN stepResults : stepResults[i].StepId \in WorkflowStepIds

\* A finished run whose sequence holds a synthesized and an executed result.
C8_Witness ==
    /\ Done
    /\ \E i \in DOMAIN stepResults : SynthesizedAt(i)
    /\ \E i \in DOMAIN stepResults : ~SynthesizedAt(i)

\* C9: a step ID in the blocked-set was never passed to the executor and
\* has no Completed result in the sequence or the lookup; a result it has
\* is the synthesized Failed one.
C9_BlockedNeverExecuted ==
    \A s \in blockedSteps :
        /\ ~Executed(s)
        /\ ~HasResult(s, Completed)
        /\ stepResultLookup[s].Status # Completed
        /\ \A i \in ResultsOf(s) : SynthesizedAt(i)

\* The blocked-set holds a reported and an unreported step of a finished run.
C9_Witness ==
    /\ Done
    /\ \E s \in blockedSteps : ResultsOf(s) # {}
    /\ \E s \in blockedSteps : ResultsOf(s) = {}

\* ---- termination ----
DeclaredOrder == [i \in DOMAIN workflow |-> workflow[i].Id]

ExactlyOneOutcome(s) ==
    \/ IsExecutedOutcome(s) /\ ~IsBlockedAndReported(s) /\ ~IsBlockedAndUnreported(s)
    \/ ~IsExecutedOutcome(s) /\ IsBlockedAndReported(s) /\ ~IsBlockedAndUnreported(s)
    \/ ~IsExecutedOutcome(s) /\ ~IsBlockedAndReported(s) /\ IsBlockedAndUnreported(s)

\* C10: every run ends; the loop goes through the steps in declared order,
\* each once, whatever fails or is blocked; at the end every step is
\* executed, blocked-and-reported or blocked-and-unreported, and only one
\* of the three.
C10_RunAttemptsEveryStepOnce ==
    /\ <>Done
    /\ [](processed = SubSeq(DeclaredOrder, 1, Len(processed)))
    /\ [](Done => /\ processed = DeclaredOrder
                  /\ \A s \in WorkflowStepIds : ExactlyOneOutcome(s))

\* A finished run with one step of each of the three outcomes.
C10_Witness ==
    /\ Done
    /\ \E s \in WorkflowStepIds : IsExecutedOutcome(s) /\ HasResult(s, Failed)
    /\ \E s \in WorkflowStepIds : IsBlockedAndReported(s)
    /\ \E s \in WorkflowStepIds : IsBlockedAndUnreported(s)

\* ---- cycles ----
OnCycle(s) == s \in Ancestors(s)

HasCycle == \E s \in WorkflowStepIds : OnCycle(s)

\* C11: when the dependency relation has a cycle, the run never reports
\* Completed or Failed (it reports a distinct cycle failure instead), and
\* no step on the cycle is recorded as blocked or failed.
C11_CycleIsDetected ==
    HasCycle =>
        /\ finalStatus \notin WorkflowStatus
        /\ \A s \in WorkflowStepIds :
              OnCycle(s) => s \notin blockedSteps /\ s \notin failedSteps

FailureUpstream(s) == \E a \in Ancestors(s) : HasResult(a, Failed)

\* C14 as first stated: every step blocked without a result has a Failed
\* result upstream, and at the end hasBlockedSteps implies hasFailedSteps.
C14_UnreportedHasFailureUpstream ==
    /\ \A s \in UnreportedSteps : FailureUpstream(s)
    /\ Done => (hasBlockedSteps(stepResults, Len(workflow))
                   => hasFailedSteps(stepResults))

\* C14: in a workflow declared in dependency order, every step blocked
\* without a result has a Failed result upstream, and at the end
\* hasBlockedSteps implies hasFailedSteps.
C14_UnreportedHasFailureUpstreamInOrder ==
    InDependencyOrder =>
        /\ \A s \in UnreportedSteps : FailureUpstream(s)
        /\ Done => (hasBlockedSteps(stepResults, Len(workflow))
                       => hasFailedSteps(stepResults))

\* A finished run in dependency order with an unreported step none of
\* whose direct dependencies has a result: the failure is further up.
C14_Witness ==
    /\ Done
    /\ InDependencyOrder
    /\ \E s \in UnreportedSteps :
          /\ DirectDeps(s) # {}
          /\ \A d \in DirectDeps(s) : ResultsOf(d) = {}

\* The declared dependencies of s that are no step of the workflow or have
\* no Completed result in the lookup.
UnsatisfiedDeps(s) ==
    {d \in DependsOn(s) :
        d \notin WorkflowStepIds \/ stepResultLookup[d].Status # Completed}

\* C15: in a step of the loop that blocks a step, the FailedDependencies of
\* the check are exactly the step's declared dependencies that are missing
\* from the workflow or not Completed, and a result synthesized in that
\* step carries that same set.
C15_FailedDependenciesExact ==
    [][(Len(processed') > Len(processed) /\ executorCalls' = executorCalls) =>
         /\ dependencyCheckResult.FailedDependencies
               = UnsatisfiedDeps(workflow[idx].Id)
         /\ dependencyCheckResult.FailedDependencies # {}
         /\ Len(stepResults') > Len(stepResults) =>
               stepResults'[Len(stepResults')].FailedDependencies
                  = UnsatisfiedDeps(workflow[idx].Id)]_vars

\* A synthesized result that implicates a missing ID and leaves out a
\* Completed dependency of its step.
C15_Witness ==
    \E i \in DOMAIN stepResults :
        /\ SynthesizedAt(i)
        /\ \E d \in stepResults[i].FailedDependencies : d \notin WorkflowStepIds
        /\ \E d \in DependsOn(stepResults[i].StepId) :
              /\ HasResult(d, Completed)
              /\ d \notin stepResults[i].FailedDependencies

\* C16: the loop goes through each step once; a step that depends on a step
\* declared later is never executed, also when that step completes later,
\* and the run ends Failed.
C16_ForwardDependencyNeverExecuted ==
    /\ \A i \in DOMAIN processed : \A j \in DOMAIN processed :
          processed[i] = processed[j] => i = j
    /\ \A s \in WorkflowStepIds : \A d \in WorkflowStepIds :
          (d \in DependsOn(s) /\ d > s) =>
              /\ ~Executed(s)
              /\ Done => finalStatus = Failed

\* A finished run without a cycle where the only blocked step depends on a
\* later step, and every other step completed.
C16_Witness ==
    /\ Done
    /\ ~HasCycle
    /\ \E s \in WorkflowStepIds : \E d \in WorkflowStepIds :
          /\ DependsOn(s) = {d}
          /\ d > s
          /\ HasResult(d, Completed)
          /\ ~Executed(s)
          /\ \A t \in WorkflowStepIds \ {s} : HasResult(t, Completed)

\* C17: at the end of every run the status the final rule gave is the one
\* the original rule gives on the same results; the result count does not
\* exceed the step count and every result is Completed or Failed.
C17_FinalRuleAgreesWithOriginal ==
    Done =>
        /\ finalStatus = OriginalStatusRule(stepResults, Len(workflow))
        /\ Len(stepResults) <= Len(workflow)
        /\ \A i \in DOMAIN stepResults : stepResults[i].Status \in WorkflowStatus

\* A finished run whose results are all Completed but fewer than the steps:
\* the original rule fails it on the count, the final rule on hasBlockedSteps.
C17_Witness ==
    /\ Done
    /\ stepResults # <<>>
    /\ Len(stepResults) < Len(workflow)
    /\ \A i \in DOMAIN stepResults : stepResults[i].Status = Completed

\* ---- the patch scripts ----
\* A text is the sequence of its pieces: a regex metacharacter, an escaped
\* metacharacter (in a search pattern), a line break, or a run of other
\* characters.  Cyrillic letters are transliterated.
\* fix_workflow.py, search pattern of the first substitution.
fix_workflow_old_blocked_logic ==
    <<"                if ", "\\(", "!dependencyCheckResult", "\\.", "CanExecute", "\\)", "\n">> \o
    <<"                ", "\\{", "\n">> \o
    <<"                    // Sozdaem rezultat dlya zablokirovannogo shaga", "\n">> \o
    <<"                    var blockedResult = CreateBlockedStepResult", "\\(", "\n">> \o
    <<"                        stepId,", "\n">> \o
    <<"                        dependencyCheckResult", "\\.", "BlockingReason,", "\n">> \o
    <<"                        dependencyCheckResult", "\\.", "FailedDependencies", "\\)", ";", "\n">> \o
    <<"\n">> \o
    <<"                    stepResults", "\\.", "Add", "\\(", "blockedResult", "\\)", ";", "\n">> \o
    <<"                    stepResultLookup", "\\[", "stepId", "\\]", " = blockedResult;", "\n">> \o
    <<"                    blockedSteps", "\\.", "Add", "\\(", "stepId", "\\)", ";", "\n">> \o
    <<"                    failedSteps", "\\.", "Add", "\\(", "stepId", "\\)", ";", "\n">> \o
    <<"\n">> \o
    <<"                    _logger", "\\.", "LogWarning", "\\(", "\"Shag ", "\\{", "StepId", "\\}", " zablokirovan: ", "\\{", "Reason", "\\}", "\", stepId, dependencyCheckResult", "\\.", "BlockingReason", "\\)", ";", "\n">> \o
    <<"\n">> \o
    <<"                    // NE rasprostranyaem blokirovku srazu - prodolzhaem vypolnenie drugikh shagov", "\n">> \o
    <<"                ", "\\}">>

\* fix_workflow.py, replacement text of the first substitution.
fix_workflow_new_blocked_logic ==
    <<"                if ", "(", "!dependencyCheckResult", ".", "CanExecute", ")", "\n">> \o
    <<"                ", "{", "\n">> \o
    <<"                    // Shag zablokirovan - NE dobavlyaem v rezultaty, tolko otslezhivaem dlya blokirovki potomkov", "\n">> \o
    <<"                    blockedSteps", ".", "Add", "(", "stepId", ")", ";", "\n">> \o
    <<"                    failedSteps", ".", "Add", "(", "stepId", ")", ";", "\n">> \o
    <<"\n">> \o
    <<"                    _logger", ".", "LogWarning", "(", "\"Shag ", "{", "StepId", "}", " zablokirovan: ", "{", "Reason", "}", "\", stepId, dependencyCheckResult", ".", "BlockingReason", ")", ";", "\n">> \o
    <<"\n">> \o
    <<"                    // Propuskaem vypolnenie zablokirovannogo shaga", "\n">> \o
    <<"                    continue;", "\n">> \o
    <<"                ", "}">>

\* fix_workflow.py, search pattern of the second substitution.
fix_workflow_old_status_logic ==
    <<"            var finalStatus = ", "\\(", "stepResults", "\\.", "Count == workflow", "\\.", "Steps", "\\.", "Count && ", "\n">> \o
    <<"                              stepResults", "\\.", "All", "\\(", "sr => sr", "\\.", "Status == WorkflowStatus", "\\.", "Completed", "\\)", "\\)", "\n">> \o
    <<"                ", "\\?", " WorkflowStatus", "\\.", "Completed", "\n">> \o
    <<"                : WorkflowStatus", "\\.", "Failed;">>

\* fix_workflow.py, replacement text of the second substitution.
fix_workflow_new_status_logic ==
    <<"            // Workflow is Complete only if ALL attempted steps succeeded", "\n">> \o
    <<"            // If there are blocked steps or any failures, the workflow is Failed", "\n">> \o
    <<"            var hasFailedSteps = stepResults", ".", "Any", "(", "sr => sr", ".", "Status == WorkflowStatus", ".", "Failed", ")", ";", "\n">> \o
    <<"            var finalStatus = ", "(", "!hasFailedSteps && stepResults", ".", "All", "(", "sr => sr", ".", "Status == WorkflowStatus", ".", "Completed", ")", ")", "\n">> \o
    <<"                ", "?", " WorkflowStatus", ".", "Completed", "\n">> \o
    <<"                : WorkflowStatus", ".", "Failed;">>

\* fix_blocking_logic.py, search pattern.
fix_blocking_logic_old_blocking_logic ==
    <<"                if ", "\\(", "!dependencyCheckResult", "\\.", "CanExecute", "\\)", "\n">> \o
    <<"                ", "\\{", "\n">> \o
    <<"                    // Shag zablokirovan - NE dobavlyaem v rezultaty, tolko otslezhivaem dlya blokirovki potomkov", "\n">> \o
    <<"                    blockedSteps", "\\.", "Add", "\\(", "stepId", "\\)", ";", "\n">> \o
    <<"                    failedSteps", "\\.", "Add", "\\(", "stepId", "\\)", ";", "\n">> \o
    <<"\n">> \o
    <<"                    _logger", "\\.", "LogWarning", "\\(", "\"Shag ", "\\{", "StepId", "\\}", " zablokirovan: ", "\\{", "Reason", "\\}", "\", stepId, dependencyCheckResult", "\\.", "BlockingReason", "\\)", ";", "\n">> \o
    <<"\n">> \o
    <<"                    // Propuskaem vypolnenie zablokirovannogo shaga", "\n">> \o
    <<"                    continue;", "\n">> \o
    <<"                ", "\\}">>

\* fix_blocking_logic.py, replacement text.
fix_blocking_logic_new_blocking_logic ==
    <<"                if ", "(", "!dependencyCheckResult", ".", "CanExecute", ")", "\n">> \o
    <<"                ", "{", "\n">> \o
    <<"                    // Razlichaem tipy blokirovki:", "\n">> \o
    <<"                    // - Otsutstvuyushchie zavisimosti ", "(", "dolzhny poyavitsya v rezultatakh kak Failed", ")", "\n">> \o
    <<"                    // - Neudachnye zavisimosti ", "(", "NE dolzhny poyavitsya v rezultatakh", ")", "\n">> \o
    <<"                    var blockingReason = dependencyCheckResult", ".", "BlockingReason ", "?", "?", " \"\";", "\n">> \o
    <<"                    ", "\n">> \o
    <<"                    if ", "(", "blockingReason", ".", "Contains", "(", "\"otsutstvuyut zavisimosti\"", ")", " ", "|", "|", " blockingReason", ".", "Contains", "(", "\"Otsutstvuyushchie zavisimosti\"", ")", ")", "\n">> \o
    <<"                    ", "{", "\n">> \o
    <<"                        // Shag zablokirovan iz-za otsutstvuyushchikh zavisimostey - sozdaem Failed rezultat", "\n">> \o
    <<"                        var blockedResult = CreateBlockedStepResult", "(", "\n">> \o
    <<"                            stepId,", "\n">> \o
    <<"                            dependencyCheckResult", ".", "BlockingReason,", "\n">> \o
    <<"                            dependencyCheckResult", ".", "FailedDependencies", ")", ";", "\n">> \o
    <<"\n">> \o
    <<"                        stepResults", ".", "Add", "(", "blockedResult", ")", ";", "\n">> \o
    <<"                        stepResultLookup", "[", "stepId", "]", " = blockedResult;", "\n">> \o
    <<"                        blockedSteps", ".", "Add", "(", "stepId", ")", ";", "\n">> \o
    <<"                        failedSteps", ".", "Add", "(", "stepId", ")", ";", "\n">> \o
    <<"\n">> \o
    <<"                        _logger", ".", "LogWarning", "(", "\"Shag ", "{", "StepId", "}", " zablokirovan i dobavlen kak Failed: ", "{", "Reason", "}", "\", stepId, dependencyCheckResult", ".", "BlockingReason", ")", ";", "\n">> \o
    <<"                    ", "}", "\n">> \o
    <<"                    else", "\n">> \o
    <<"                    ", "{", "\n">> \o
    <<"                        // Shag zablokirovan iz-za neudachnykh zavisimostey - NE dobavlyaem v rezultaty", "\n">> \o
    <<"                        blockedSteps", ".", "Add", "(", "stepId", ")", ";", "\n">> \o
    <<"                        failedSteps", ".", "Add", "(", "stepId", ")", ";", "\n">> \o
    <<"\n">> \o
    <<"                        _logger", ".", "LogWarning", "(", "\"Shag ", "{", "StepId", "}", " zablokirovan i propushchen: ", "{", "Reason", "}", "\", stepId, dependencyCheckResult", ".", "BlockingReason", ")", ";", "\n">> \o
    <<"                    ", "}", "\n">> \o
    <<"\n">> \o
    <<"                    // Propuskaem vypolnenie zablokirovannogo shaga", "\n">> \o
    <<"                    continue;", "\n">> \o
    <<"                ", "}">>

\* Variant: fix_status.py searches for the status rule of the unpatched file.
fix_status_old_status_logic_Unpatched == fix_workflow_old_status_logic

\* fix_status.py, search pattern.
fix_status_old_status_logic ==
    <<"            // Workflow is Complete only if ALL attempted steps succeeded", "\n">> \o
    <<"            // If there are blocked steps or any failures, the workflow is Failed", "\n">> \o
    <<"            var hasFailedSteps = stepResults", "\\.", "Any", "\\(", "sr => sr", "\\.", "Status == WorkflowStatus", "\\.", "Failed", "\\)", ";", "\n">> \o
    <<"            var finalStatus = ", "\\(", "!hasFailedSteps && stepResults", "\\.", "All", "\\(", "sr => sr", "\\.", "Status == WorkflowStatus", "\\.", "Completed", "\\)", "\\)", "\n">> \o
    <<"                ", "\\?", " WorkflowStatus", "\\.", "Completed", "\n">> \o
    <<"                : WorkflowStatus", "\\.", "Failed;">>

\* fix_status.py, replacement text.
fix_status_new_status_logic ==
    <<"            // Workflow is Complete only if ALL steps were executed successfully", "\n">> \o
    <<"            // If there are blocked steps ", "(", "missing from results", ")", " or any failures, the workflow is Failed", "\n">> \o
    <<"            var hasFailedSteps = stepResults", ".", "Any", "(", "sr => sr", ".", "Status == WorkflowStatus", ".", "Failed", ")", ";", "\n">> \o
    <<"            var hasBlockedSteps = stepResults", ".", "Count < workflow", ".", "Steps", ".", "Count;", "\n">> \o
    <<"            var finalStatus = ", "(", "!hasFailedSteps && !hasBlockedSteps && stepResults", ".", "All", "(", "sr => sr", ".", "Status == WorkflowStatus", ".", "Completed", ")", ")", "\n">> \o
    <<"                ", "?", " WorkflowStatus", ".", "Completed", "\n">> \o
    <<"                : WorkflowStatus", ".", "Failed;">>

RegexMeta == {".", "^", "$", "*", "+", "?", "{", "}", "[", "]", "|", "(", ")"}

\* The character an escape sequence of a pattern stands for.
EscapedMeta ==
    ("\\." :> ".") @@ ("\\^" :> "^") @@ ("\\$" :> "$") @@ ("\\*" :> "*") @@
    ("\\+" :> "+") @@ ("\\?" :> "?") @@ ("\\{" :> "{") @@ ("\\}" :> "}") @@
    ("\\[" :> "[") @@ ("\\]" :> "]") @@ ("\\|" :> "|") @@ ("\\(" :> "(") @@
    ("\\)" :> ")")

\* One piece of a pattern against one piece of text: an escape matches its
\* character, a bare dot any one character but a line break, any other bare
\* metacharacter is no literal, and a run matches itself.
TokenMatches(p, t) ==
    IF p \in DOMAIN EscapedMeta THEN t = EscapedMeta[p]
    ELSE IF p = "." THEN t \in RegexMeta
    ELSE IF p \in RegexMeta THEN FALSE
    ELSE p = t

MatchesAt(pattern, string, i) ==
    /\ i + Len(pattern) - 1 <= Len(string)
    /\ \A k \in 1..Len(pattern) : TokenMatches(pattern[k], string[i + k - 1])

\* The leftmost match at or after position from, 0 when there is none.
FirstMatch(pattern, string, from) ==
    LET found == {i \in from..Len(string) : MatchesAt(pattern, string, i)}
    IN  IF found = {} THEN 0
        ELSE CHOOSE i \in found : \A j \in found : i <= j

RECURSIVE SubFrom(_, _, _, _)
SubFrom(pattern, repl, string, from) ==
    LET i == FirstMatch(pattern, string, from)
    IN  IF i = 0 THEN SubSeq(string, from, Len(string))
        ELSE SubSeq(string, from, i - 1) \o repl
                \o SubFrom(pattern, repl, string, i + Len(pattern))

\* re.sub(pattern, repl, string): every match, left to right, is replaced.
re_sub(pattern, repl, string) == SubFrom(pattern, repl, string, 1)

fix_workflow(c) ==
    re_sub(fix_workflow_old_status_logic, fix_workflow_new_status_logic,
           re_sub(fix_workflow_old_blocked_logic, fix_workflow_new_blocked_logic, c))

fix_blocking_logic(c) ==
    re_sub(fix_blocking_logic_old_blocking_logic,
           fix_blocking_logic_new_blocking_logic, c)

fix_status(c) ==
    re_sub(fix_status_old_status_logic, fix_status_new_status_logic, c)

Scripts == {"fix_workflow", "fix_blocking_logic", "fix_status"}

RunScript(script, c) ==
    IF script = "fix_workflow" THEN fix_workflow(c)
    ELSE IF script = "fix_blocking_logic" THEN fix_blocking_logic(c)
    ELSE fix_status(c)

\* ---- the file before the patches ----
\* The text a pattern without bare metacharacters matches.
LiteralOf(pattern) ==
    [k \in DOMAIN pattern |->
        IF pattern[k] \in DOMAIN EscapedMeta THEN EscapedMeta[pattern[k]]
        ELSE pattern[k]]

OriginalBlockedLogic == LiteralOf(fix_workflow_old_blocked_logic) \o <<"\n">>

OriginalStatusLogic == LiteralOf(fix_workflow_old_status_logic) \o <<"\n">>

OtherCode == <<"            // other code", "\n">>

Chunks == {OriginalBlockedLogic, OriginalStatusLogic, OtherCode}

RECURSIVE Concat(_)
Concat(chunks) ==
    IF chunks = <<>> THEN <<>> ELSE Head(chunks) \o Concat(Tail(chunks))

\* Unpatched files: up to MaxChunks pieces of code in any order.
OriginalFiles ==
    UNION {{Concat(f) : f \in [1..n -> Chunks]} : n \in 0..MaxChunks}

PatchInit ==
    /\ content \in OriginalFiles
    /\ applied = <<>>
    /\ workflow = <<>>
    /\ idx = 1
    /\ stepResults = <<>>
    /\ stepResultLookup = [d \in DepIds |-> NoResult]
    /\ blockedSteps = {}
    /\ failedSteps = {}
    /\ executorCalls = <<>>
    /\ processed = <<>>
    /\ finalStatus = NoStatus

Run(script) ==
    /\ Len(applied) < MaxRuns
    /\ content' = RunScript(script, content)
    /\ applied' = Append(applied, script)
    /\ UNCHANGED engineVars

RunFixWorkflow == Run("fix_workflow")

RunFixBlockingLogic == Run("fix_blocking_logic")

RunFixStatus == Run("fix_status")

PatchNext ==
    \/ RunFixWorkflow
    \/ RunFixBlockingLogic
    \/ RunFixStatus

PatchSpec == PatchInit /\ [][PatchNext]_vars

\* ---- vocabulary of the pipeline property ----
\* The text stands in the string, piece for piece.
Occurs(text, string) ==
    \E i \in 1..Len(string) :
        /\ i + Len(text) - 1 <= Len(string)
        /\ SubSeq(string, i, i + Len(text) - 1) = text

WasApplied(script) == \E i \in DOMAIN applied : applied[i] = script

\* C18: the search patterns of fix_blocking_logic.py and fix_status.py match
\* exactly the texts fix_workflow.py writes; neither script changes a file
\* fix_workflow.py has not been applied to, the unpatched file included, and
\* each changes a file that holds the text fix_workflow.py wrote; once
\* fix_workflow.py has run the two commute; and running any of the three
\* scripts twice in a row gives what running it once gives.
C18_PatchPipeline ==
    /\ LiteralOf(fix_blocking_logic_old_blocking_logic) = fix_workflow_new_blocked_logic
    /\ LiteralOf(fix_status_old_status_logic) = fix_workflow_new_status_logic
    /\ ~WasApplied("fix_workflow") =>
          /\ fix_blocking_logic(content) = content
          /\ fix_status(content) = content
    /\ Occurs(fix_workflow_new_blocked_logic, content) =>
          fix_blocking_logic(content) # content
    /\ Occurs(fix_workflow_new_status_logic, content) =>
          fix_status(content) # content
    /\ WasApplied("fix_workflow") =>
          fix_blocking_logic(fix_status(content))
             = fix_status(fix_blocking_logic(content))
    /\ \A script \in Scripts :
          RunScript(script, RunScript(script, content)) = RunScript(script, content)

\* All three scripts have run, fix_workflow.py first, on a file that held
\* both pieces of code, and the file now holds both final texts.
C18_Witness ==
    /\ Len(applied) = 3
    /\ applied[1] = "fix_workflow"
    /\ \A script \in Scripts : WasApplied(script)
    /\ Occurs(fix_blocking_logic_new_blocking_logic, content)
    /\ Occurs(fix_status_new_status_logic, content)
====
